---- MODULE Spec2Model ----
(***************************************************************************)
(* Model of the date module of faker (SimpleDateModule / DateModule).      *)
(*                                                                         *)
(* An instant is a number of milliseconds since the epoch.  The values the *)
(* module handles (a year is 31,536,000,000 ms) do not fit the 32-bit      *)
(* integers of TLC, so an instant is kept exactly in two limbs: a day      *)
(* number d and the milliseconds ms within that day, 0 <= ms < MsPerDay,   *)
(* the instant being d * MsPerDay + ms.                                    *)
(***************************************************************************)
EXTENDS Integers, Sequences, FiniteSets, TLC

VARIABLES op, args, outcome, draws, run

vars == <<op, args, outcome, draws, run>>

----------------------------------------------------------------------------
(* Bounds of the model *)

MaxYears == 2
MaxDays == 2
MaxCount == 2

----------------------------------------------------------------------------
(* Instants: exact two-limb arithmetic *)

MsPerDay == 24 * 3600 * 1000

Time(d, ms) == [d |-> d + (ms \div MsPerDay), ms |-> ms % MsPerDay]

Epoch == Time(0, 0)

AddMs(t, k) == Time(t.d, t.ms + k)

AddDays(t, n) == [d |-> t.d + n, ms |-> t.ms]

Lt(a, b) == a.d < b.d \/ (a.d = b.d /\ a.ms < b.ms)

Le(a, b) == a.d < b.d \/ (a.d = b.d /\ a.ms <= b.ms)

IsZero(t) == t.d = 0 /\ t.ms = 0

----------------------------------------------------------------------------
(* The UTC calendar of ECMAScript Date objects *)

IsLeap(y) == (y % 4 = 0 /\ y % 100 # 0) \/ y % 400 = 0

\* Day number of 1 January of year y (ECMAScript DayFromYear).
DayFromYear(y) ==
    365 * (y - 1970) + ((y - 1969) \div 4) - ((y - 1901) \div 100)
        + ((y - 1601) \div 400)

MonthLengths(y) ==
    <<31, IF IsLeap(y) THEN 29 ELSE 28, 31, 30, 31, 30, 31, 31, 30, 31, 30, 31>>

RECURSIVE DaysBeforeMonth(_, _)
\* Days of year y that precede month m (m = 0 is January).
DaysBeforeMonth(y, m) ==
    IF m = 0 THEN 0 ELSE DaysBeforeMonth(y, m - 1) + MonthLengths(y)[m]

\* ECMAScript MakeDay(year, month, date): the date may run past the month's end.
MakeDay(y, m, dt) == DayFromYear(y) + DaysBeforeMonth(y, m) + dt - 1

\* Date.UTC(year, month, date): a year of 0..99 means 1900 + year.
DateUTC(y, m, dt) ==
    Time(MakeDay(IF y >= 0 /\ y <= 99 THEN 1900 + y ELSE y, m, dt), 0)

RECURSIVE YearFrom(_, _)
YearFrom(day, y) ==
    IF day < DayFromYear(y) THEN YearFrom(day, y - 1)
    ELSE IF day >= DayFromYear(y + 1) THEN YearFrom(day, y + 1)
    ELSE y

\* Date.prototype.getUTCFullYear (ECMAScript YearFromTime).
getUTCFullYear(t) == YearFrom(t.d, 1970 + (t.d \div 366))

RECURSIVE MonthFrom(_, _, _)
MonthFrom(y, dayInYear, m) ==
    IF dayInYear < DaysBeforeMonth(y, m + 1) THEN m
    ELSE MonthFrom(y, dayInYear, m + 1)

\* Date.prototype.getUTCMonth (0 = January).
getUTCMonth(t) ==
    LET y == getUTCFullYear(t) IN MonthFrom(y, t.d - DayFromYear(y), 0)

\* Date.prototype.getUTCDate (day of the month, from 1).
getUTCDate(t) ==
    LET y == getUTCFullYear(t)
    IN  t.d - DayFromYear(y) - DaysBeforeMonth(y, getUTCMonth(t)) + 1

\* Date.prototype.setUTCFullYear(year): month, day of month and time of day are
\* kept; 29 February moved to a common year becomes 1 March.
setUTCFullYear(t, y) ==
    [d |-> MakeDay(y, getUTCMonth(t), getUTCDate(t)), ms |-> t.ms]

----------------------------------------------------------------------------
(* JavaScript values passed as dates and as optional numbers *)

Undefined == [tag |-> "undefined"]

Null == [tag |-> "null"]

NaN == [tag |-> "NaN"]

EmptyString == [tag |-> "emptystring"]

BadString == [tag |-> "badstring"]

InvalidDate == [tag |-> "InvalidDate"]

\* A number holding the epoch milliseconds of instant t.
Num(t) == [tag |-> "number", t |-> t]

\* A Date object at instant t.
DateObj(t) == [tag |-> "Date", t |-> t]

\* An ISO 8601 string 'YYYY-MM-DDTHH:mm:ss.sssZ' with the given fields
\* (mo from 1, dd from 1, tod the milliseconds of HH:mm:ss.sss).
Str(y, mo, dd, tod) == [tag |-> "string", y |-> y, mo |-> mo, dd |-> dd, tod |-> tod]

\* A small integer option (years, days, count, min, max).
IntOpt(n) == [tag |-> "int", n |-> n]

\* JavaScript truthiness, as tested by the ! operator.
Truthy(v) ==
    /\ v.tag \notin {"undefined", "null", "NaN", "emptystring"}
    /\ (v.tag = "number" => ~IsZero(v.t))

\* new Date(value).valueOf(): the instant, or NaN (valid = FALSE).
NewDate(v) ==
    CASE v.tag \in {"number", "Date"} -> [valid |-> TRUE, t |-> v.t]
      [] v.tag = "null" -> [valid |-> TRUE, t |-> Epoch]
      [] v.tag = "string" ->
            IF /\ v.mo \in 1..12
               /\ v.dd \in 1..MonthLengths(v.y)[v.mo]
               /\ v.tod \in 0..(MsPerDay - 1)
            THEN [valid |-> TRUE, t |-> Time(MakeDay(v.y, v.mo - 1, v.dd), v.tod)]
            ELSE [valid |-> FALSE]
      [] OTHER -> [valid |-> FALSE]

----------------------------------------------------------------------------
(* Outcomes of a call *)

\* The messages of the FakerErrors thrown (the back quotes of the source are
\* written as single quotes).
MsgMissingBounds == "Must pass an options object with 'from' and 'to' values."

MsgFromAfterTo == "'from' date must be before 'to' date."

MsgYears == "Years must be greater than 0."

MsgDays == "Days must be greater than 0."

MsgInvalidDate(name) == "Invalid " \o name \o " date"

\* throw new FakerError(msg)
Threw(msg) == [kind |-> "error", msg |-> msg]

\* The call reached faker.number.int({ min: lo, max: hi }).
Window(lo, hi) == [kind |-> "ok", lo |-> lo, hi |-> hi]

\* return new Date(r), r being the integer that faker.number.int returned.
Returned(w, r) == [kind |-> "ok", lo |-> w.lo, hi |-> w.hi, value |-> r]

toDate(date, name) ==
    LET converted == NewDate(date)
    IN  IF ~converted.valid
        THEN [ok |-> FALSE, msg |-> MsgInvalidDate(name)]
        ELSE [ok |-> TRUE, t |-> converted.t]

----------------------------------------------------------------------------
(* The random-integer source *)

Mid(lo, hi) == Time((lo.d + hi.d) \div 2, (lo.ms + hi.ms) \div 2)

\* faker.number.int({ min, max }) returns any integer of [min, max].  The
\* values tried are both ends, their neighbours, a middle point and the epoch.
number_int(min, max) ==
    { r \in {min, AddMs(min, 1), Mid(min, max), AddMs(max, -1), max, Epoch} :
        Le(min, r) /\ Le(r, max) }

----------------------------------------------------------------------------
(* SimpleDateModule *)

NoOptions == [present |-> FALSE]

Options(from, to) == [present |-> TRUE, from |-> from, to |-> to]

\* between with the upper end of the range one millisecond too far.
between_upperOpen(options) ==
    IF ~options.present \/ ~Truthy(options.from) \/ ~Truthy(options.to)
    THEN Threw(MsgMissingBounds)
    ELSE LET from == toDate(options.from, "from")
             to == toDate(options.to, "to")
         IN  IF ~from.ok THEN Threw(from.msg)
             ELSE IF ~to.ok THEN Threw(to.msg)
             ELSE IF Lt(to.t, from.t) THEN Threw(MsgFromAfterTo)
             ELSE Window(from.t, AddMs(to.t, 1))

\* between swapping a reversed range instead of rejecting it.
between_swapsReversed(options) ==
    IF ~options.present \/ ~Truthy(options.from) \/ ~Truthy(options.to)
    THEN Threw(MsgMissingBounds)
    ELSE LET from == toDate(options.from, "from")
             to == toDate(options.to, "to")
         IN  IF ~from.ok THEN Threw(from.msg)
             ELSE IF ~to.ok THEN Threw(to.msg)
             ELSE IF Lt(to.t, from.t) THEN Window(to.t, from.t)
             ELSE Window(from.t, to.t)

\* between testing the bounds with == null instead of for falsiness.
between_nullCheck(options) ==
    IF \/ ~options.present
       \/ options.from.tag \in {"undefined", "null"}
       \/ options.to.tag \in {"undefined", "null"}
    THEN Threw(MsgMissingBounds)
    ELSE LET from == toDate(options.from, "from")
             to == toDate(options.to, "to")
         IN  IF ~from.ok THEN Threw(from.msg)
             ELSE IF ~to.ok THEN Threw(to.msg)
             ELSE IF Lt(to.t, from.t) THEN Threw(MsgFromAfterTo)
             ELSE Window(from.t, to.t)

between(options) ==
    IF ~options.present \/ ~Truthy(options.from) \/ ~Truthy(options.to)
    THEN Threw(MsgMissingBounds)
    ELSE LET from == toDate(options.from, "from")
             to == toDate(options.to, "to")
         IN  IF ~from.ok THEN Threw(from.msg)
             ELSE IF ~to.ok THEN Threw(to.msg)
             ELSE IF Lt(to.t, from.t) THEN Threw(MsgFromAfterTo)
             ELSE Window(from.t, to.t)

\* const { x = dflt } = options: the default replaces undefined only.
OrDefault(v, dflt) == IF v.tag = "undefined" THEN dflt ELSE v

anytime(options, defaultRefDate) ==
    LET refDate == OrDefault(options.refDate, defaultRefDate)
        time == toDate(refDate, "refDate")
    IN  IF ~time.ok THEN Threw(time.msg)
        ELSE between(Options(Num(AddDays(time.t, -365)),
                             Num(AddDays(time.t, 365))))

\* past with the window ending one millisecond before the reference date.
past_toMinusOne(options, defaultRefDate) ==
    LET years == OrDefault(options.years, IntOpt(1)).n
        refDate == OrDefault(options.refDate, defaultRefDate)
        time == toDate(refDate, "refDate")
    IN  IF years <= 0 THEN Threw(MsgYears)
        ELSE IF ~time.ok THEN Threw(time.msg)
        ELSE between(Options(Num(AddDays(time.t, -(years * 365))),
                             Num(AddMs(time.t, -1))))

past(options, defaultRefDate) ==
    LET years == OrDefault(options.years, IntOpt(1)).n
        refDate == OrDefault(options.refDate, defaultRefDate)
        time == toDate(refDate, "refDate")
    IN  IF years <= 0 THEN Threw(MsgYears)
        ELSE IF ~time.ok THEN Threw(time.msg)
        ELSE between(Options(Num(AddDays(time.t, -(years * 365))),
                             Num(AddMs(time.t, -1000))))

future(options, defaultRefDate) ==
    LET years == OrDefault(options.years, IntOpt(1)).n
        refDate == OrDefault(options.refDate, defaultRefDate)
        time == toDate(refDate, "refDate")
    IN  IF years <= 0 THEN Threw(MsgYears)
        ELSE IF ~time.ok THEN Threw(time.msg)
        ELSE between(Options(Num(AddMs(time.t, 1000)),
                             Num(AddDays(time.t, years * 365))))

recent(options, defaultRefDate) ==
    LET days == OrDefault(options.days, IntOpt(1)).n
        refDate == OrDefault(options.refDate, defaultRefDate)
        time == toDate(refDate, "refDate")
    IN  IF days <= 0 THEN Threw(MsgDays)
        ELSE IF ~time.ok THEN Threw(time.msg)
        ELSE between(Options(Num(AddDays(time.t, -days)),
                             Num(AddMs(time.t, -1000))))

soon(options, defaultRefDate) ==
    LET days == OrDefault(options.days, IntOpt(1)).n
        refDate == OrDefault(options.refDate, defaultRefDate)
        time == toDate(refDate, "refDate")
    IN  IF days <= 0 THEN Threw(MsgDays)
        ELSE IF ~time.ok THEN Threw(time.msg)
        ELSE between(Options(Num(AddMs(time.t, 1000)),
                             Num(AddDays(time.t, days))))

\* a ?? b: b replaces null and undefined only.
Nullish(v, dflt) == IF v.tag \in {"undefined", "null"} THEN dflt ELSE v.n

\* The text of ${v} in a template string.
Text(v) == IF v.tag = "int" THEN ToString(v.n) ELSE v.tag

MsgMaxMin(max, min) ==
    "Max " \o Text(max) \o " should be larger than or equal to min "
        \o Text(min) \o "."

\* A mode option: 'age' or 'year'.
ModeOpt(m) == [tag |-> "mode", m |-> m]

birthdateMode(options) ==
    IF options.mode.tag = "undefined" THEN "year" ELSE options.mode.m

\* birthdateMin without the extra year below the maximum age.
birthdateMin_noExtraYear(options, date) ==
    LET refYear == getUTCFullYear(date)
    IN  IF birthdateMode(options) = "age"
        THEN setUTCFullYear(date, refYear - Nullish(options.max, 80))
        ELSE setUTCFullYear(DateUTC(0, 0, 2), Nullish(options.min, refYear - 80))

\* The epoch timestamp min of birthdate, date being the reference date.
birthdateMin(options, date) ==
    LET refYear == getUTCFullYear(date)
    IN  IF birthdateMode(options) = "age"
        THEN setUTCFullYear(date, refYear - Nullish(options.max, 80) - 1)
        ELSE setUTCFullYear(DateUTC(0, 0, 2), Nullish(options.min, refYear - 80))

\* birthdateMax built from the last day of December.
birthdateMax_lastDay(options, date) ==
    LET refYear == getUTCFullYear(date)
    IN  IF birthdateMode(options) = "age"
        THEN setUTCFullYear(date, refYear - Nullish(options.min, 18))
        ELSE setUTCFullYear(DateUTC(0, 11, 31), Nullish(options.max, refYear - 19))

\* The epoch timestamp max of birthdate, date being the reference date.
birthdateMax(options, date) ==
    LET refYear == getUTCFullYear(date)
    IN  IF birthdateMode(options) = "age"
        THEN setUTCFullYear(date, refYear - Nullish(options.min, 18))
        ELSE setUTCFullYear(DateUTC(0, 11, 30), Nullish(options.max, refYear - 19))

\* birthdate drawing through between instead of faker.number.int.
birthdate_viaBetween(options, defaultRefDate) ==
    LET refDate == OrDefault(options.refDate, defaultRefDate)
        date == toDate(refDate, "refDate")
        min == birthdateMin(options, date.t)
        max == birthdateMax(options, date.t)
    IN  IF ~date.ok THEN Threw(date.msg)
        ELSE IF Lt(max, min) THEN Threw(MsgMaxMin(options.max, options.min))
        ELSE between(Options(Num(min), Num(max)))

birthdate(options, defaultRefDate) ==
    LET refDate == OrDefault(options.refDate, defaultRefDate)
        date == toDate(refDate, "refDate")
        min == birthdateMin(options, date.t)
        max == birthdateMax(options, date.t)
    IN  IF ~date.ok THEN Threw(date.msg)
        ELSE IF Lt(max, min) THEN Threw(MsgMaxMin(options.max, options.min))
        ELSE Window(min, max)

\* The count option of betweens: a number, or { min, max }.
CountRange(min, max) == [tag |-> "range", min |-> min, max |-> max]

\* helpers.rangeToNumber(count): the numbers of values that helpers.multiple
\* may produce for a count option (a { min, max } count is drawn in min..max).
rangeToNumber(count) ==
    IF count.tag = "range" THEN count.min..count.max ELSE {count.n}

RECURSIVE Insert(_, _)
Insert(sorted, x) ==
    IF sorted = <<>> THEN <<x>>
    ELSE IF Lt(x, Head(sorted)) THEN <<x>> \o sorted
    ELSE <<Head(sorted)>> \o Insert(Tail(sorted), x)

\* betweens without the sort.
SortByTime_unsorted(dates) == dates

RECURSIVE SortByTime(_)
\* dates.sort((a, b) => a.getTime() - b.getTime())
SortByTime(dates) ==
    IF dates = <<>> THEN <<>>
    ELSE Insert(SortByTime(SubSeq(dates, 1, Len(dates) - 1)), dates[Len(dates)])

\* betweens up to the calls of between: the missing-bounds check, the count
\* option with its default, and what each call of between({ from, to }) does.
betweens(options) ==
    IF ~options.present \/ ~Truthy(options.from) \/ ~Truthy(options.to)
    THEN Threw(MsgMissingBounds)
    ELSE [kind |-> "calls",
          count |-> OrDefault(options.count, IntOpt(3)),
          each |-> between(Options(options.from, options.to))]

\* The array betweens returns when the calls of between returned dates.
betweensResult(each, dates) ==
    [kind |-> "ok", lo |-> each.lo, hi |-> each.hi, values |-> SortByTime(dates)]

----------------------------------------------------------------------------
(* DateModule: names of months and weekdays *)

\* A key of a DateEntryDefinition that the locale does not define.
Absent == [defined |-> FALSE, values |-> <<>>]

Defined(values) == [defined |-> TRUE, values |-> values]

MsgLocaleData(path, type) == "The locale data for '" \o path \o "." \o type \o "' are missing"

MsgEmptyArray == "Cannot get value from empty dataset."

\* monthType looking for wide_context whatever the base.
monthType_wideContext(options, source) ==
    LET abbreviated == IF options.abbreviated.tag = "undefined" THEN FALSE
                       ELSE options.abbreviated.b
        context == IF options.context.tag = "undefined" THEN FALSE
                   ELSE options.context.b
    IN  IF abbreviated
        THEN LET useContext == context /\ source["wide_context"].defined
             IN  IF useContext THEN "abbr_context" ELSE "abbr"
        ELSE LET useContext == context /\ source["wide_context"].defined
             IN  IF useContext THEN "wide_context" ELSE "wide"

monthType(options, source) ==
    LET abbreviated == IF options.abbreviated.tag = "undefined" THEN FALSE
                       ELSE options.abbreviated.b
        context == IF options.context.tag = "undefined" THEN FALSE
                   ELSE options.context.b
    IN  IF abbreviated
        THEN LET useContext == context /\ source["abbr_context"].defined
             IN  IF useContext THEN "abbr_context" ELSE "abbr"
        ELSE LET useContext == context /\ source["wide_context"].defined
             IN  IF useContext THEN "wide_context" ELSE "wide"

weekdayType(options, source) ==
    LET abbreviated == IF options.abbreviated.tag = "undefined" THEN FALSE
                       ELSE options.abbreviated.b
        context == IF options.context.tag = "undefined" THEN FALSE
                   ELSE options.context.b
    IN  IF abbreviated
        THEN LET useContext == context /\ source["abbr_context"].defined
             IN  IF useContext THEN "abbr_context" ELSE "abbr"
        ELSE LET useContext == context /\ source["wide_context"].defined
             IN  IF useContext THEN "wide_context" ELSE "wide"

\* assertLocaleData(values, path, type), then helpers.arrayElement(values):
\* the strings that may be returned, or the error thrown.
pick(source, path, type) ==
    LET values == source[type]
    IN  IF ~values.defined THEN Threw(MsgLocaleData(path, type))
        ELSE IF values.values = <<>> THEN Threw(MsgEmptyArray)
        ELSE [kind |-> "ok", type |-> type, values |-> values.values]

month(options, source) == pick(source, "date.month", monthType(options, source))

weekday(options, source) == pick(source, "date.weekday", weekdayType(options, source))

----------------------------------------------------------------------------
(* Inputs *)

\* 2020-01-01T00:00:00.000Z
Y2020 == Time(MakeDay(2020, 0, 1), 0)

\* Instants used as bounds and as reference dates.
Instants ==
    { Epoch, Time(0, 1000), Time(-1, MsPerDay - 1000), Time(1, 0), Time(-1, 0),
      Time(365, 0), Time(-365, 0), Y2020, AddMs(Y2020, 1),
      Time(MakeDay(2020, 1, 29), 12 * 3600 * 1000) }

Strings ==
    { Str(1970, 1, 1, 0), Str(2020, 1, 1, 0), Str(2020, 1, 1, 1),
      Str(2030, 1, 1, 0), Str(2021, 2, 29, 0) }

BoundValues ==
    {Undefined, Null, NaN, EmptyString, BadString, InvalidDate}
        \cup { Num(t) : t \in {Epoch, Time(0, 1000), Time(-1, 0), Y2020, AddMs(Y2020, 1)} }
        \cup { DateObj(t) : t \in {Epoch, Y2020} }
        \cup Strings

RefDates == {Undefined, Null, BadString} \cup { Num(t) : t \in Instants } \cup Strings

DefaultRefDates == { DateObj(Y2020), DateObj(Time(0, 1000)) }

YearsValues == {Undefined} \cup { IntOpt(n) : n \in -1..MaxYears }

DaysValues == {Undefined} \cup { IntOpt(n) : n \in -1..MaxDays }

MinMaxValues ==
    {Undefined, Null}
        \cup { IntOpt(n) : n \in {0, 18, 19, 49, 50, 65, 80, 1900, 1970, 2000, 2001} }

ModeValues == {Undefined, ModeOpt("age"), ModeOpt("year")}

BirthRefDates ==
    { Undefined, BadString, Num(Y2020), Str(2020, 1, 1, 0), Num(Epoch),
      Num(Time(MakeDay(2020, 1, 29), 12 * 3600 * 1000)),
      Num(Time(MakeDay(2019, 11, 31), MsPerDay - 1)) }

ListBounds ==
    { Undefined, BadString, Num(Epoch), Num(Time(0, 1000)), Num(Y2020),
      DateObj(Epoch), Str(2020, 1, 1, 1) }

CountValues ==
    {Undefined} \cup { IntOpt(n) : n \in -1..MaxCount }
        \cup { CountRange(a, b) : a \in {0, 1}, b \in {1, MaxCount} }

BoolOpt(b) == [tag |-> "boolean", b |-> b]

BoolValues == {Undefined, BoolOpt(FALSE), BoolOpt(TRUE)}

\* The entries a locale may give for one key; the strings name the key read.
EntriesOf(key) ==
    { Absent, Defined(<<>>), Defined(<<key \o "_1">>),
      Defined(<<key \o "_1", key \o "_2">>) }

Keys == {"wide", "abbr", "wide_context", "abbr_context"}

Sources ==
    { [k \in Keys |-> e[k]] :
        e \in { f \in [Keys -> EntriesOf("wide") \cup EntriesOf("abbr")
                                \cup EntriesOf("wide_context")
                                \cup EntriesOf("abbr_context")] :
                    \A k \in Keys : f[k] \in EntriesOf(k) } }

----------------------------------------------------------------------------
(* Actions: one call of a method, with the draw of the random source *)

\* The call ends as w says; when w reached faker.number.int, r is drawn.
Finish(name, a, w) ==
    /\ op' = name
    /\ args' = a
    /\ UNCHANGED run
    /\ \/ /\ w.kind = "error"
          /\ outcome' = w
          /\ draws' = 0
       \/ /\ w.kind = "ok"
          /\ \E r \in number_int(w.lo, w.hi) : outcome' = Returned(w, r)
          /\ draws' = 1

Between ==
    /\ op = "none"
    /\ \E options \in {NoOptions} \cup { Options(f, t) : f \in BoundValues, t \in BoundValues } :
           Finish("between", options, between(options))

Anytime ==
    /\ op = "none"
    /\ \E refDate \in RefDates, now \in DefaultRefDates :
           LET options == [refDate |-> refDate]
           IN  Finish("anytime", [options |-> options, now |-> now], anytime(options, now))

Past ==
    /\ op = "none"
    /\ \E years \in YearsValues, refDate \in RefDates, now \in DefaultRefDates :
           LET options == [years |-> years, refDate |-> refDate]
           IN  Finish("past", [options |-> options, now |-> now], past(options, now))

Future ==
    /\ op = "none"
    /\ \E years \in YearsValues, refDate \in RefDates, now \in DefaultRefDates :
           LET options == [years |-> years, refDate |-> refDate]
           IN  Finish("future", [options |-> options, now |-> now], future(options, now))

Recent ==
    /\ op = "none"
    /\ \E days \in DaysValues, refDate \in RefDates, now \in DefaultRefDates :
           LET options == [days |-> days, refDate |-> refDate]
           IN  Finish("recent", [options |-> options, now |-> now], recent(options, now))

Soon ==
    /\ op = "none"
    /\ \E days \in DaysValues, refDate \in RefDates, now \in DefaultRefDates :
           LET options == [days |-> days, refDate |-> refDate]
           IN  Finish("soon", [options |-> options, now |-> now], soon(options, now))

Birthdate ==
    /\ op = "none"
    /\ \E min \in MinMaxValues, max \in MinMaxValues, mode \in ModeValues,
          refDate \in BirthRefDates, now \in DefaultRefDates :
           LET options == [min |-> min, max |-> max, mode |-> mode, refDate |-> refDate]
           IN  Finish("birthdate", [options |-> options, now |-> now],
                      birthdate(options, now))

\* helpers.multiple calls between n times, n being the count; the dates
\* returned are sorted.  A call that throws ends betweens with its error.
Betweens ==
    /\ op = "none"
    /\ \E from \in ListBounds, to \in ListBounds, count \in CountValues,
          present \in BOOLEAN :
           LET options == IF present
                          THEN [present |-> TRUE, from |-> from, to |-> to, count |-> count]
                          ELSE NoOptions
               b == betweens(options)
           IN  /\ op' = "betweens"
               /\ args' = options
               /\ UNCHANGED run
               /\ \/ /\ b.kind = "error"
                     /\ outcome' = b
                     /\ draws' = 0
                  \/ /\ b.kind = "calls"
                     /\ \E n \in rangeToNumber(b.count) :
                           \/ /\ n <= 0
                              /\ outcome' = [kind |-> "ok", values |-> <<>>]
                              /\ draws' = 0
                           \/ /\ n > 0
                              /\ b.each.kind = "error"
                              /\ outcome' = b.each
                              /\ draws' = 0
                           \/ /\ n > 0
                              /\ b.each.kind = "ok"
                              /\ \E dates \in [1..n -> number_int(b.each.lo, b.each.hi)] :
                                    outcome' = betweensResult(b.each, dates)
                              /\ draws' = n

Month ==
    /\ op = "none"
    /\ \E abbreviated \in BoolValues, context \in BoolValues, source \in Sources :
           LET options == [abbreviated |-> abbreviated, context |-> context]
               m == month(options, source)
           IN  /\ op' = "month"
               /\ args' = [options |-> options, source |-> source]
               /\ draws' = 0
               /\ UNCHANGED run
               /\ \/ /\ m.kind = "error"
                     /\ outcome' = m
                  \/ /\ m.kind = "ok"
                     /\ \E i \in 1..Len(m.values) :
                           outcome' = [kind |-> "ok", type |-> m.type, value |-> m.values[i]]

Weekday ==
    /\ op = "none"
    /\ \E abbreviated \in BoolValues, context \in BoolValues, source \in Sources :
           LET options == [abbreviated |-> abbreviated, context |-> context]
               m == weekday(options, source)
           IN  /\ op' = "weekday"
               /\ args' = [options |-> options, source |-> source]
               /\ draws' = 0
               /\ UNCHANGED run
               /\ \/ /\ m.kind = "error"
                     /\ outcome' = m
                  \/ /\ m.kind = "ok"
                     /\ \E i \in 1..Len(m.values) :
                           outcome' = [kind |-> "ok", type |-> m.type, value |-> m.values[i]]

\* No call is running.
Idle == [pc |-> "idle"]

Init ==
    /\ op = "none"
    /\ args = NoOptions
    /\ outcome = [kind |-> "none"]
    /\ draws = 0
    /\ run = Idle

\* The caller takes the result; the module keeps no state between calls.
Return ==
    /\ op # "none"
    /\ run.pc = "idle"
    /\ op' = "none"
    /\ args' = NoOptions
    /\ outcome' = [kind |-> "none"]
    /\ draws' = 0
    /\ UNCHANGED run

Next ==
    \/ Return
    \/ Between
    \/ Anytime
    \/ Past
    \/ Future
    \/ Recent
    \/ Soon
    \/ Birthdate
    \/ Betweens
    \/ Month
    \/ Weekday

Spec == Init /\ [][Next]_vars

----------------------------------------------------------------------------
(* The calls statement by statement: run holds the position in between,    *)
(* its local values, the calls of between still to make and the dates      *)
(* drawn so far; draws counts the calls of faker.number.int.               *)

\* The method calls this.between(options).
Calls(options) == [kind |-> "call", options |-> options]

\* The statements of the methods that precede their call of between.
anytimeCall(options, defaultRefDate) ==
    LET refDate == OrDefault(options.refDate, defaultRefDate)
        time == toDate(refDate, "refDate")
    IN  IF ~time.ok THEN Threw(time.msg)
        ELSE Calls(Options(Num(AddDays(time.t, -365)), Num(AddDays(time.t, 365))))

pastCall(options, defaultRefDate) ==
    LET years == OrDefault(options.years, IntOpt(1)).n
        refDate == OrDefault(options.refDate, defaultRefDate)
        time == toDate(refDate, "refDate")
    IN  IF years <= 0 THEN Threw(MsgYears)
        ELSE IF ~time.ok THEN Threw(time.msg)
        ELSE Calls(Options(Num(AddDays(time.t, -(years * 365))),
                           Num(AddMs(time.t, -1000))))

futureCall(options, defaultRefDate) ==
    LET years == OrDefault(options.years, IntOpt(1)).n
        refDate == OrDefault(options.refDate, defaultRefDate)
        time == toDate(refDate, "refDate")
    IN  IF years <= 0 THEN Threw(MsgYears)
        ELSE IF ~time.ok THEN Threw(time.msg)
        ELSE Calls(Options(Num(AddMs(time.t, 1000)),
                           Num(AddDays(time.t, years * 365))))

recentCall(options, defaultRefDate) ==
    LET days == OrDefault(options.days, IntOpt(1)).n
        refDate == OrDefault(options.refDate, defaultRefDate)
        time == toDate(refDate, "refDate")
    IN  IF days <= 0 THEN Threw(MsgDays)
        ELSE IF ~time.ok THEN Threw(time.msg)
        ELSE Calls(Options(Num(AddDays(time.t, -days)), Num(AddMs(time.t, -1000))))

soonCall(options, defaultRefDate) ==
    LET days == OrDefault(options.days, IntOpt(1)).n
        refDate == OrDefault(options.refDate, defaultRefDate)
        time == toDate(refDate, "refDate")
    IN  IF days <= 0 THEN Threw(MsgDays)
        ELSE IF ~time.ok THEN Threw(time.msg)
        ELSE Calls(Options(Num(AddMs(time.t, 1000)), Num(AddDays(time.t, days))))

\* between with its test for missing bounds made after the draw.
betweenSteps_boundsLast == <<"from", "to", "range", "draw", "bounds">>

\* The statements of between, in the order of the source: the test for
\* missing bounds, the two coercions, the test of the range, the draw.
betweenSteps == <<"bounds", "from", "to", "range", "draw">>

\* The statement that follows pc, or "end" after the last one.
StepAfter(pc) ==
    LET i == CHOOSE k \in 1..Len(betweenSteps) : betweenSteps[k] = pc
    IN  IF i = Len(betweenSteps) THEN "end" ELSE betweenSteps[i + 1]

\* A call of between begins; left calls are to make, this one included.
Enter(options, left, dates) ==
    [pc |-> betweenSteps[1],
     present |-> options.present,
     from |-> IF options.present THEN options.from ELSE Undefined,
     to |-> IF options.present THEN options.to ELSE Undefined,
     fromMs |-> Epoch, toMs |-> Epoch, left |-> left, dates |-> dates]

\* A method is called: it throws, or it calls between left times.
Start(name, a, c, left) ==
    /\ op' = name
    /\ args' = a
    /\ draws' = 0
    /\ \/ /\ c.kind = "error"
          /\ outcome' = c
          /\ run' = Idle
       \/ /\ c.kind = "call"
          /\ outcome' = [kind |-> "none"]
          /\ run' = Enter(c.options, left, <<>>)

\* The statement at run.pc throws.
Throw(msg) ==
    /\ outcome' = Threw(msg)
    /\ run' = Idle

\* The statement at run.pc is done, r being the local values after it: the
\* next statement follows; after the last one helpers.multiple calls between
\* again, or the method returns (betweens sorts its dates).
Proceed(r) ==
    IF StepAfter(run.pc) # "end"
    THEN /\ run' = [r EXCEPT !.pc = StepAfter(run.pc)]
         /\ UNCHANGED outcome
    ELSE IF r.left > 1
    THEN /\ run' = Enter(Options(r.from, r.to), r.left - 1, r.dates)
         /\ UNCHANGED outcome
    ELSE /\ run' = Idle
         /\ outcome' = IF op = "betweens"
                       THEN betweensResult(Window(r.fromMs, r.toMs), r.dates)
                       ELSE Returned(Window(r.fromMs, r.toMs), r.dates[1])

CallBetween ==
    /\ op = "none"
    /\ \E options \in {NoOptions} \cup { Options(f, t) : f \in BoundValues, t \in BoundValues } :
           /\ op' = "between"
           /\ args' = options
           /\ draws' = 0
           /\ outcome' = [kind |-> "none"]
           /\ run' = Enter(options, 1, <<>>)

CallAnytime ==
    /\ op = "none"
    /\ \E refDate \in RefDates, now \in DefaultRefDates :
           LET options == [refDate |-> refDate]
           IN  Start("anytime", [options |-> options, now |-> now],
                     anytimeCall(options, now), 1)

CallPast ==
    /\ op = "none"
    /\ \E years \in YearsValues, refDate \in RefDates, now \in DefaultRefDates :
           LET options == [years |-> years, refDate |-> refDate]
           IN  Start("past", [options |-> options, now |-> now],
                     pastCall(options, now), 1)

CallFuture ==
    /\ op = "none"
    /\ \E years \in YearsValues, refDate \in RefDates, now \in DefaultRefDates :
           LET options == [years |-> years, refDate |-> refDate]
           IN  Start("future", [options |-> options, now |-> now],
                     futureCall(options, now), 1)

CallRecent ==
    /\ op = "none"
    /\ \E days \in DaysValues, refDate \in RefDates, now \in DefaultRefDates :
           LET options == [days |-> days, refDate |-> refDate]
           IN  Start("recent", [options |-> options, now |-> now],
                     recentCall(options, now), 1)

CallSoon ==
    /\ op = "none"
    /\ \E days \in DaysValues, refDate \in RefDates, now \in DefaultRefDates :
           LET options == [days |-> days, refDate |-> refDate]
           IN  Start("soon", [options |-> options, now |-> now],
                     soonCall(options, now), 1)

\* betweens: its own test for missing bounds, then helpers.multiple, which
\* returns [] for a count of 0 or less and calls between count times otherwise.
CallBetweens ==
    /\ op = "none"
    /\ \E from \in ListBounds, to \in ListBounds, count \in CountValues,
          present \in BOOLEAN :
           LET options == IF present
                          THEN [present |-> TRUE, from |-> from, to |-> to, count |-> count]
                          ELSE NoOptions
               b == betweens(options)
           IN  /\ op' = "betweens"
               /\ args' = options
               /\ draws' = 0
               /\ \/ /\ b.kind = "error"
                     /\ outcome' = b
                     /\ run' = Idle
                  \/ /\ b.kind = "calls"
                     /\ \E n \in rangeToNumber(b.count) :
                           \/ /\ n <= 0
                              /\ outcome' = [kind |-> "ok", values |-> <<>>]
                              /\ run' = Idle
                           \/ /\ n > 0
                              /\ outcome' = [kind |-> "none"]
                              /\ run' = Enter(Options(from, to), n, <<>>)

\* if (!options || !options.from || !options.to) throw ...
BetweenBounds ==
    /\ run.pc = "bounds"
    /\ UNCHANGED <<op, args, draws>>
    /\ IF ~run.present \/ ~Truthy(run.from) \/ ~Truthy(run.to)
       THEN Throw(MsgMissingBounds)
       ELSE Proceed(run)

\* const fromMs = toDate(from, 'from').getTime()
BetweenFrom ==
    /\ run.pc = "from"
    /\ UNCHANGED <<op, args, draws>>
    /\ LET from == toDate(run.from, "from")
       IN  IF ~from.ok THEN Throw(from.msg)
           ELSE Proceed([run EXCEPT !.fromMs = from.t])

\* const toMs = toDate(to, 'to').getTime()
BetweenTo ==
    /\ run.pc = "to"
    /\ UNCHANGED <<op, args, draws>>
    /\ LET to == toDate(run.to, "to")
       IN  IF ~to.ok THEN Throw(to.msg)
           ELSE Proceed([run EXCEPT !.toMs = to.t])

\* if (fromMs > toMs) throw ...
BetweenRange ==
    /\ run.pc = "range"
    /\ UNCHANGED <<op, args, draws>>
    /\ IF Lt(run.toMs, run.fromMs) THEN Throw(MsgFromAfterTo) ELSE Proceed(run)

\* new Date(this.faker.number.int({ min: fromMs, max: toMs }))
BetweenDraw ==
    /\ run.pc = "draw"
    /\ UNCHANGED <<op, args>>
    /\ draws' = draws + 1
    /\ \E r \in number_int(run.fromMs, run.toMs) :
           Proceed([run EXCEPT !.dates = Append(@, r)])

NextSteps ==
    \/ Return
    \/ CallBetween
    \/ CallAnytime
    \/ CallPast
    \/ CallFuture
    \/ CallRecent
    \/ CallSoon
    \/ CallBetweens
    \/ BetweenBounds
    \/ BetweenFrom
    \/ BetweenTo
    \/ BetweenRange
    \/ BetweenDraw

SpecSteps == Init /\ [][NextSteps]_vars

----------------------------------------------------------------------------
(* Properties of between *)

\* Both bounds of the call of between pass its test for missing bounds.
BoundsPresent == args.present /\ Truthy(args.from) /\ Truthy(args.to)

FromMs == NewDate(args.from)

ToMs == NewDate(args.to)

MissingValue(v) == v.tag \in {"undefined", "null"} \/ v = Num(Epoch)

\* C3: a call of between without options, or whose from or to is omitted,
\* undefined, null or the number 0, throws the missing-bounds error and no
\* other, whatever the other bound is (unparsable, or before the first).
C3_BetweenMissingBounds ==
    (op = "between"
        /\ (~args.present \/ MissingValue(args.from) \/ MissingValue(args.to)))
    => outcome = Threw(MsgMissingBounds) /\ draws = 0

\* from is an unparsable string and to is the number 0: the missing-bounds
\* error is thrown, not the invalid-date error.
C3_Witness ==
    /\ op = "between"
    /\ args = Options(BadString, Num(Epoch))
    /\ outcome = Threw(MsgMissingBounds)

----------------------------------------------------------------------------
(* Properties of past, future, recent and soon *)

Policies == {"past", "future", "recent", "soon"}

\* The reference date of the call, coerced.
Ref == NewDate(OrDefault(args.options.refDate, args.now))

\* The years of past and future, the days of recent and soon.
Amount ==
    IF op \in {"past", "future"} THEN OrDefault(args.options.years, IntOpt(1)).n
    ELSE OrDefault(args.options.days, IntOpt(1)).n

\* The length of the window in days: a year is 365 days.
SpanDays == IF op \in {"past", "future"} THEN Amount * 365 ELSE Amount

\* C4: with a valid reference date and years > 0 (days > 0), past and recent
\* return a date strictly before the reference date, future and soon one
\* strictly after it: the call returns a date and does not fail.
C4_PolicyDirection ==
    (op \in Policies /\ Ref.valid /\ Amount > 0)
    => /\ outcome.kind = "ok"
       /\ (op \in {"past", "recent"} => Lt(outcome.value, Ref.t))
       /\ (op \in {"future", "soon"} => Lt(Ref.t, outcome.value))

\* C9 as stated: the dates past and recent may return are those of
\* [ref - span, ref - 1], those of future and soon are [ref + 1, ref + span].
C9_WindowOneMs ==
    (op \in Policies /\ Ref.valid /\ Amount > 0 /\ outcome.kind = "ok")
    => IF op \in {"past", "recent"}
       THEN /\ outcome.lo = AddDays(Ref.t, -SpanDays)
            /\ outcome.hi = AddMs(Ref.t, -1)
       ELSE /\ outcome.lo = AddMs(Ref.t, 1)
            /\ outcome.hi = AddDays(Ref.t, SpanDays)

\* The window of the call: it ends 1000 ms before the reference date, or
\* starts 1000 ms after it.
PolicyLo ==
    IF op \in {"past", "recent"} THEN AddDays(Ref.t, -SpanDays) ELSE AddMs(Ref.t, 1000)

PolicyHi ==
    IF op \in {"past", "recent"} THEN AddMs(Ref.t, -1000) ELSE AddDays(Ref.t, SpanDays)

\* C9 amended: the dates past and recent may return are those of
\* [ref - span, ref - 1000], those of future and soon are
\* [ref + 1000, ref + span], span being years * 365 days or days * 86,400,000
\* ms; when an end of that window is the epoch instant 0 the call throws the
\* missing-bounds error instead.
C9_WindowOneSecond ==
    (op \in Policies /\ Ref.valid /\ Amount > 0)
    => IF IsZero(PolicyLo) \/ IsZero(PolicyHi)
       THEN outcome = Threw(MsgMissingBounds)
       ELSE /\ outcome.kind = "ok"
            /\ outcome.lo = PolicyLo
            /\ outcome.hi = PolicyHi
            /\ Le(PolicyLo, outcome.value)
            /\ Le(outcome.value, PolicyHi)

\* past({ years: 2, refDate: 2020-01-01 }) has returned ref - 1000 ms, the
\* latest date it can return.
C9_Witness ==
    /\ op = "past"
    /\ args.options = [years |-> IntOpt(2), refDate |-> Num(Y2020)]
    /\ outcome.kind = "ok"
    /\ outcome.value = AddMs(Y2020, -1000)

----------------------------------------------------------------------------
(* Properties of betweens *)

Sorted(dates) == \A i, j \in 1..Len(dates) : i < j => Le(dates[i], dates[j])

\* C5: betweens with present bounds that coerce to from <= to and a fixed
\* count n >= 0 returns exactly n dates, each within [from, to], in
\* non-decreasing order, each drawn by its own call of between.
C5_BetweensSorted ==
    (op = "betweens" /\ BoundsPresent /\ FromMs.valid /\ ToMs.valid
        /\ Le(FromMs.t, ToMs.t) /\ args.count.tag = "int" /\ args.count.n >= 0)
    => /\ outcome.kind = "ok"
       /\ Len(outcome.values) = args.count.n
       /\ \A i \in 1..Len(outcome.values) :
             Le(FromMs.t, outcome.values[i]) /\ Le(outcome.values[i], ToMs.t)
       /\ Sorted(outcome.values)
       /\ draws = args.count.n

\* betweens with count 2 has returned both ends of its range, in order.
C5_Witness ==
    /\ op = "betweens"
    /\ args = [present |-> TRUE, from |-> Num(Time(0, 1000)), to |-> Num(Y2020),
               count |-> IntOpt(2)]
    /\ outcome.kind = "ok"
    /\ outcome.values = <<Time(0, 1000), Y2020>>

----------------------------------------------------------------------------
(* Properties of birthdate *)

Mode == birthdateMode(args.options)

RefYear == getUTCFullYear(Ref.t)

AgeMin == Nullish(args.options.min, 18)

AgeMax == Nullish(args.options.max, 80)

\* C6 as stated: in mode 'age' with min <= max, the year of the reference
\* date minus the year of birth lies in [min, max].
C6_YearDifferenceUpToMax ==
    (op = "birthdate" /\ Mode = "age" /\ Ref.valid /\ AgeMin <= AgeMax)
    => /\ outcome.kind = "ok"
       /\ RefYear - getUTCFullYear(outcome.value) \in AgeMin..AgeMax

\* C6 amended: in mode 'age' with min <= max, birthdate returns a date whose
\* year of birth lies between refYear - max - 1 and refYear - min, so the
\* year difference lies in [min, max + 1]; the range drawn from starts in the
\* year refYear - max - 1 and ends in the year refYear - min.
C6_YearDifferenceUpToMaxPlusOne ==
    (op = "birthdate" /\ Mode = "age" /\ Ref.valid /\ AgeMin <= AgeMax)
    => /\ outcome.kind = "ok"
       /\ RefYear - getUTCFullYear(outcome.value) \in AgeMin..(AgeMax + 1)
       /\ getUTCFullYear(outcome.lo) = RefYear - AgeMax - 1
       /\ getUTCFullYear(outcome.hi) = RefYear - AgeMin

\* birthdate({ min: 18, max: 65, mode: 'age', refDate: 2020-01-01 }) has
\* returned a date of 1954 = refYear - 65 - 1.
C6_Witness ==
    /\ op = "birthdate"
    /\ args.options = [min |-> IntOpt(18), max |-> IntOpt(65),
                       mode |-> ModeOpt("age"), refDate |-> Str(2020, 1, 1, 0)]
    /\ outcome.kind = "ok"
    /\ getUTCFullYear(outcome.value) = 2020 - 65 - 1

YearMin == Nullish(args.options.min, RefYear - 80)

YearMax == Nullish(args.options.max, RefYear - 19)

\* C7: in mode 'year' with min <= max (refYear - 80 and refYear - 19 when
\* omitted), birthdate returns a date of a year in [min, max], not before
\* 2 January 00:00 UTC of min and not after 30 December 00:00 UTC of max, so
\* never on the first day of year min nor on the last day of year max.
C7_YearModeWindow ==
    (op = "birthdate" /\ Mode = "year" /\ Ref.valid /\ YearMin <= YearMax)
    => /\ outcome.kind = "ok"
       /\ getUTCFullYear(outcome.value) \in YearMin..YearMax
       /\ Le(Time(MakeDay(YearMin, 0, 2), 0), outcome.value)
       /\ Le(outcome.value, Time(MakeDay(YearMax, 11, 30), 0))
       /\ outcome.value.d # MakeDay(YearMin, 0, 1)
       /\ outcome.value.d # MakeDay(YearMax, 11, 31)

\* birthdate({ min: 1900, max: 2000 }) has returned 2000-12-30T00:00:00.000Z.
C7_Witness ==
    /\ op = "birthdate"
    /\ args.options.min = IntOpt(1900)
    /\ args.options.max = IntOpt(2000)
    /\ args.options.mode = Undefined
    /\ outcome.kind = "ok"
    /\ outcome.value = Time(MakeDay(2000, 11, 30), 0)

\* The kind of error a message stands for.
ErrorClass(msg) ==
    IF msg = MsgMissingBounds THEN "MissingBoundsError"
    ELSE IF msg \in {MsgYears, MsgDays} THEN "InvalidArgumentError"
    ELSE IF msg \in {MsgInvalidDate("from"), MsgInvalidDate("to"), MsgInvalidDate("refDate")}
    THEN "InvalidDateError"
    ELSE "InvalidRangeError"

\* Two calls end alike: both return a date of the same range, or both
\* fail with the same kind of error.
SameOutcome(a, b) ==
    /\ a.kind = b.kind
    /\ (a.kind = "ok" => a.lo = b.lo /\ a.hi = b.hi)
    /\ (a.kind = "error" => ErrorClass(a.msg) = ErrorClass(b.msg))

\* The bounds birthdate derives, and between called with them.
DerivedMin == birthdateMin(args.options, Ref.t)

DerivedMax == birthdateMax(args.options, Ref.t)

BetweenDerived == between(Options(Num(DerivedMin), Num(DerivedMax)))

\* C10 as stated: birthdate ends as between({ from: min, to: max }) does on
\* the derived bounds, also when a derived bound is the epoch instant 0.
C10_BirthdateAsBetween ==
    (op = "birthdate" /\ Ref.valid) => SameOutcome(outcome, BetweenDerived)

\* C10 amended: birthdate draws from faker.number.int itself.  It ends as
\* between does on the derived bounds when neither bound is the epoch instant
\* 0; when one is, between throws the missing-bounds error while birthdate
\* still throws its range error if max < min and returns a date of
\* [min, max] otherwise.
C10_BirthdateDrawsItself ==
    (op = "birthdate" /\ Ref.valid)
    => IF IsZero(DerivedMin) \/ IsZero(DerivedMax)
       THEN /\ BetweenDerived = Threw(MsgMissingBounds)
            /\ IF Lt(DerivedMax, DerivedMin)
               THEN /\ outcome.kind = "error"
                    /\ ErrorClass(outcome.msg) = "InvalidRangeError"
               ELSE /\ outcome.kind = "ok"
                    /\ outcome.lo = DerivedMin
                    /\ outcome.hi = DerivedMax
                    /\ Le(DerivedMin, outcome.value)
                    /\ Le(outcome.value, DerivedMax)
       ELSE SameOutcome(outcome, BetweenDerived)

\* birthdate in mode 'age' with min 50 and reference date 2020-01-01 has
\* returned the epoch instant 0, the upper bound it derived.
C10_Witness ==
    /\ op = "birthdate"
    /\ Mode = "age"
    /\ args.options.min = IntOpt(50)
    /\ outcome.kind = "ok"
    /\ IsZero(outcome.hi)
    /\ IsZero(outcome.value)

----------------------------------------------------------------------------
(* Properties of month and weekday *)

Abbreviated == args.options.abbreviated = BoolOpt(TRUE)

Context == args.options.context = BoolOpt(TRUE)

Base == IF Abbreviated THEN "abbr" ELSE "wide"

\* The variant to read: the base, or its context variant when asked for and
\* defined by the locale.
Resolved ==
    IF Context /\ args.source[Base \o "_context"].defined
    THEN Base \o "_context"
    ELSE Base

Elements(values) == { values[i] : i \in 1..Len(values) }

\* C8: month and weekday read the same variant: 'abbr' or 'wide' by
\* abbreviated, replaced by its '_context' variant exactly when context is
\* true and the locale defines that key; the string returned is an element
\* of that list, and the call fails only if the list is missing or empty.
C8_VariantResolution ==
    (op \in {"month", "weekday"})
    => /\ (outcome.kind = "ok"
            => /\ outcome.type = Resolved
               /\ outcome.value \in Elements(args.source[Resolved].values))
       /\ (outcome.kind = "error"
            => \/ ~args.source[Resolved].defined
               \/ args.source[Resolved].values = <<>>)

\* month({ abbreviated: true, context: true }) on a locale with wide_context
\* and without abbr_context has returned an element of abbr.
C8_Witness ==
    /\ op = "month"
    /\ Abbreviated
    /\ Context
    /\ ~args.source["abbr_context"].defined
    /\ args.source["wide_context"].defined
    /\ outcome.kind = "ok"
    /\ outcome.type = "abbr"
    /\ outcome.value = "abbr_1"

----------------------------------------------------------------------------
(* The range error of birthdate *)

\* The caller passed both min and max.
BothSupplied == args.options.min.tag = "int" /\ args.options.max.tag = "int"

\* C11: in mode 'age' and in mode 'year', a call of birthdate whose max is
\* smaller than its min throws 'Max <max> should be larger than or equal to
\* min <min>.' with the caller's min and max in the message, and a call with
\* max >= min returns a date.
C11_MaxBelowMinRejected ==
    (op = "birthdate" /\ Ref.valid /\ BothSupplied)
    => IF args.options.max.n < args.options.min.n
       THEN outcome = Threw(MsgMaxMin(args.options.max, args.options.min))
       ELSE outcome.kind = "ok"

----------------------------------------------------------------------------
(* The draws of a call, under SpecSteps *)

\* The call has returned or thrown.
Finished == op # "none" /\ run.pc = "idle"

\* The methods that call between once.
SingleDraw == {"between", "anytime", "past", "future", "recent", "soon"}

\* C12: every call of between that returns a date has made exactly one call
\* of faker.number.int, so a call of between, anytime, past, future, recent
\* or soon that returns has consumed one draw and betweens with a fixed
\* count n >= 0 (3 when omitted) has consumed n; a call that throws has
\* consumed none: no validation fails after a draw.
C12_DrawsPerCall ==
    /\ (op # "none" /\ run.pc # "idle") => draws = Len(run.dates)
    /\ (Finished /\ outcome.kind = "error") => draws = 0
    /\ (Finished /\ outcome.kind = "ok" /\ op \in SingleDraw) => draws = 1
    /\ (Finished /\ outcome.kind = "ok" /\ op = "betweens"
            /\ args.count.tag \in {"int", "undefined"}
            /\ OrDefault(args.count, IntOpt(3)).n >= 0)
       => /\ draws = OrDefault(args.count, IntOpt(3)).n
          /\ Len(outcome.values) = draws

\* betweens with count 2 has returned two dates after two draws.
C12_Witness ==
    /\ Finished
    /\ op = "betweens"
    /\ outcome.kind = "ok"
    /\ args.count = IntOpt(2)
    /\ Len(outcome.values) = 2
    /\ draws = 2

====
